---- MODULE Spec2Model ----
(***************************************************************************)
(* The service worker of the blog (src/unnamed/part_000): its install,     *)
(* activate and fetch listeners, the cacheFirst and networkFirst           *)
(* strategies, and the CacheStorage they share; and two scripts of the     *)
(* page (src/unnamed/part_007): the retry loader of TwikooErrorHandler and *)
(* the task dispatch of WorkerManager.                                     *)
(*                                                                         *)
(* A URL path is a sequence of tokens whose concatenation is the path      *)
(* string: "/css/matery.css" is <<"/", "css", "/", "matery.css">>.  No     *)
(* token other than "/" holds a slash and no token is part of another      *)
(* pattern token, so String.includes on the path is the search for a       *)
(* contiguous run of tokens.                                               *)
(***************************************************************************)
EXTENDS Naturals, Sequences, FiniteSets, TLC

VARIABLES
    swState,        \* lifecycle state of this worker version
    skipWaitingFlag,\* set by self.skipWaiting()
    oldActive,      \* a previous version is active and controls open pages
    installPc,      \* position in the install listener's promise chain
    addAllResult,   \* outcome of cache.addAll(STATIC_ASSETS): "none", "ok", "failed"
    activatePc,     \* position in the activate listener's promise chain
    toDelete,       \* caches.delete calls of the activate listener still in flight
    claimed,        \* self.clients.claim() has been called
    actNames,       \* while activating: the cache names at the listener's start
    actStore,       \* while activating: the cache contents at the listener's start
    cacheNames,     \* CacheStorage: names of the existing caches, in creation order
    store,          \* CacheStorage: contents of each cache, URL -> response
    h,              \* one record per fetch event: the handler's locals and position
    pendingPuts,    \* cache.put calls started and not yet settled
    twikoo,         \* TwikooErrorHandler: its fields, loads in flight and timers
    manager         \* WorkerManager: its fields, the tasks and the timers

swVars == <<swState, skipWaitingFlag, oldActive, installPc, addAllResult, activatePc,
            toDelete, claimed, actNames, actStore, cacheNames, store, h, pendingPuts>>

vars == <<swState, skipWaitingFlag, oldActive, installPc, addAllResult, activatePc,
          toDelete, claimed, actNames, actStore, cacheNames, store, h, pendingPuts,
          twikoo, manager>>

(***************************************************************************)
(* Bounds of the model.                                                    *)
(***************************************************************************)
MaxEvents == 1      \* fetch events dispatched in one run
MaxInFlight == 1    \* fetch handlers running at the same time
MaxRepeats == 1     \* further fetch events for the request of the first one
MaxRetryLoads == 2  \* calls of TwikooErrorHandler.retryLoad from outside the class
MaxWorkers == 2     \* navigator.hardwareConcurrency: size of the worker pool
MaxTasks == 2       \* calls of WorkerManager.executeTask
MaxRestarts == 1    \* error events of workers
MaxCleanups == 1    \* beforeunload events
MaxPathLen == 4     \* tokens of a generated path of the classification universe

(***************************************************************************)
(* Module-level constants of the worker.                                   *)
(***************************************************************************)
STATIC_CACHE == "static-v1.0.0"
DYNAMIC_CACHE == "dynamic-v1.0.0"
OLD_STATIC == "static-v0.9.0"
OLD_DYNAMIC == "dynamic-v0.9.0"

\* CacheStorage keeps its caches in creation order; this is the order in which
\* the names of the model can have been created before this version installs.
AllCacheNames == <<OLD_STATIC, OLD_DYNAMIC, STATIC_CACHE, DYNAMIC_CACHE>>

STATIC_ASSETS ==
    << <<"/">>,
       <<"/", "css", "/", "matery.css">>,
       <<"/", "css", "/", "modern-optimizations.css">>,
       <<"/", "js", "/", "matery.js">>,
       <<"/", "js", "/", "modern-optimizations.js">>,
       <<"/", "libs", "/", "jquery", "/", "jquery-3.6.0.min.js">>,
       <<"/", "libs", "/", "materialize", "/", "materialize.min.js">>,
       <<"/", "medias", "/", "logo.png">>,
       <<"/", "favicon.png">> >>

NETWORK_FIRST ==
    << <<"/", "search.xml">>,
       <<"/", "atom.xml">>,
       <<"/", "sitemap.xml">> >>

Range(s) == { s[i] : i \in 1..Len(s) }

\* String.prototype.includes on paths: needle occurs as a contiguous run.
Includes(hay, needle) ==
    \E i \in 0..(Len(hay) - Len(needle)) :
        SubSeq(hay, i + 1, i + Len(needle)) = needle

\* Array.prototype.includes on the manifest: exact equality with an element.
ArrayIncludes(arr, x) == \E i \in 1..Len(arr) : arr[i] = x

(***************************************************************************)
(* Requests.  url.origin, url.pathname, url.search and request.destination *)
(***************************************************************************)
SelfOrigin == "https://blog.example"
OtherOrigin == "https://cdn.example"
Destinations == {"style", "script", "image", "document", ""}

Req(o, p, s, d) == [origin |-> o, path |-> p, search |-> s, dest |-> d]

\* The cache key of a request: its full URL (caches.match does not ignore
\* the query string).
UrlOf(req) == [origin |-> req.origin, path |-> req.path, search |-> req.search]


(***************************************************************************)
(* Responses.  "from" tells where the bytes come from: "network" (the      *)
(* server answered fetch number tag), "install" (fetched by addAll),       *)
(* "previous" (stored before this version was installed), "synth" (built   *)
(* by the worker with new Response).                                       *)
(***************************************************************************)
Resp(st, ct, u, f, t) == [status |-> st, ctype |-> ct, url |-> u, from |-> f, tag |-> t]

NoUrl == [origin |-> "", path |-> <<>>, search |-> ""]

\* undefined: what caches.match resolves with when nothing matches
NoResp == Resp(0, "", NoUrl, "none", 0)

\* Response.ok
Ok(resp) == resp.status >= 200 /\ resp.status <= 299

\* What fetch(request) can do: answer 2xx, answer non-2xx, or throw.
NetOutcomes == {"ok", "notok", "throw"}

NetworkResponse(req, outcome, i) ==
    Resp(IF outcome = "ok" THEN 200 ELSE 404, "as-served", UrlOf(req), "network", i)

\* new Response('<svg ...>', { headers: { 'Content-Type': 'image/svg+xml' } })
PlaceholderImage == Resp(200, "image/svg+xml", NoUrl, "synth", 0)

\* new Response(`<!DOCTYPE html>...`, { headers: {...}, status: 200 })
OfflinePage == Resp(200, "text/html; charset=utf-8", NoUrl, "synth", 0)

OfflineUrl == [origin |-> SelfOrigin, path |-> <<"/", "offline.html">>, search |-> ""]

(***************************************************************************)
(* CacheStorage.                                                           *)
(***************************************************************************)
EmptyCache == [u \in {} |-> NoResp]

Min(S) == CHOOSE x \in S : \A y \in S : x <= y

\* caches.match(request): the first cache, in creation order, that holds the
\* URL answers; undefined when none does.
CachesMatch(names, st, url) ==
    LET hits == { k \in 1..Len(names) : url \in DOMAIN st[names[k]] }
    IN  IF hits = {} THEN NoResp ELSE st[names[Min(hits)]][url]

\* Faulty variant: the cache is opened under a name of another version.
OpenedLegacy(names, name) ==
    IF OLD_DYNAMIC \in Range(names) THEN names ELSE Append(names, OLD_DYNAMIC)

\* caches.open(name) creates the cache when it does not exist.
Opened(names, name) == IF name \in Range(names) THEN names ELSE Append(names, name)

\* caches.delete(name)
Removed(names, name) == SelectSeq(names, LAMBDA n : n # name)

\* Faulty variant: the write replaces the contents of the cache.
PutEntryAlone(cache, url, resp) == (url :> resp)

\* cache.put(url, resp) on the contents of one cache
PutEntry(cache, url, resp) == (url :> resp) @@ cache

\* cache.addAll(STATIC_ASSETS): every asset fetched and stored, or nothing.
ManifestUrl(p) == [origin |-> SelfOrigin, path |-> p, search |-> ""]

ManifestUrls == { ManifestUrl(p) : p \in Range(STATIC_ASSETS) }

AddedAll(cache) ==
    [u \in ManifestUrls |-> Resp(200, "as-served", u, "install", 0)] @@ cache

(***************************************************************************)
(* The fetch listener: which branch answers a request.                     *)
(***************************************************************************)
\* Faulty variant: the static-resource test is made before the network-first test.
FetchRuleStaticFirst(req) ==
    IF req.origin # SelfOrigin THEN 0
    ELSE IF \/ req.dest = "style"
            \/ req.dest = "script"
            \/ req.dest = "image"
            \/ ArrayIncludes(STATIC_ASSETS, req.path) THEN 2
    ELSE IF \E k \in 1..Len(NETWORK_FIRST) : Includes(req.path, NETWORK_FIRST[k]) THEN 1
    ELSE IF req.dest = "document" THEN 3
    ELSE 4

\* Faulty variant: the network-first list is matched by equality, not includes.
FetchRuleExactPath(req) ==
    IF req.origin # SelfOrigin THEN 0
    ELSE IF ArrayIncludes(NETWORK_FIRST, req.path) THEN 1
    ELSE IF \/ req.dest = "style"
            \/ req.dest = "script"
            \/ req.dest = "image"
            \/ ArrayIncludes(STATIC_ASSETS, req.path) THEN 2
    ELSE IF req.dest = "document" THEN 3
    ELSE 4

\* Faulty variant: the same-origin test is missing.
FetchRuleNoOriginCheck(req) ==
    IF \E k \in 1..Len(NETWORK_FIRST) : Includes(req.path, NETWORK_FIRST[k]) THEN 1
    ELSE IF \/ req.dest = "style"
            \/ req.dest = "script"
            \/ req.dest = "image"
            \/ ArrayIncludes(STATIC_ASSETS, req.path) THEN 2
    ELSE IF req.dest = "document" THEN 3
    ELSE 4

\* 0: not intercepted; 1..4: the four respondWith calls, in source order
FetchRule(req) ==
    IF req.origin # SelfOrigin THEN 0
    ELSE IF \E k \in 1..Len(NETWORK_FIRST) : Includes(req.path, NETWORK_FIRST[k]) THEN 1
    ELSE IF \/ req.dest = "style"
            \/ req.dest = "script"
            \/ req.dest = "image"
            \/ ArrayIncludes(STATIC_ASSETS, req.path) THEN 2
    ELSE IF req.dest = "document" THEN 3
    ELSE 4

RulePolicy(rule) ==
    CASE rule = 0 -> "none"
      [] rule = 1 -> "networkFirst"
      [] rule = 2 -> "cacheFirst"
      [] rule = 3 -> "networkFirst"
      [] rule = 4 -> "networkFirst"

\* The handler as respondWith receives it: the strategy has run up to its
\* first await (caches.match in cacheFirst, fetch in networkFirst).
NewHandler(req) ==
    LET rule == FetchRule(req)
        policy == RulePolicy(rule)
    IN  [ req |-> req,
          rule |-> rule,
          policy |-> policy,
          pc |-> CASE policy = "none" -> "passthrough"
                   [] policy = "cacheFirst" -> "cf_match"
                   [] policy = "networkFirst" -> "nf_fetch",
          cachedResponse |-> NoResp,
          networkResponse |-> NoResp,
          offlinePage |-> NoResp,
          result |-> NoResp,
          error |-> "none",
          fetches |-> IF policy = "networkFirst" THEN 1 ELSE 0,
          puts |-> 0 ]

(***************************************************************************)
(* The requests of the runs.                                               *)
(***************************************************************************)
\* Generated paths: every token sequence of at most MaxPathLen tokens that
\* starts with "/" (a pathname always does).
GenTokens == {"/", "search.xml", "atom.xml", "sitemap.xml", "x"}

RECURSIVE PathsOfLen(_)
PathsOfLen(n) ==
    IF n = 1 THEN { <<"/">> }
    ELSE { Append(p, t) : p \in PathsOfLen(n - 1), t \in GenTokens }

GenPaths == UNION { PathsOfLen(n) : n \in 1..MaxPathLen }

PostPath == <<"/", "some", "/", "post", "/">>
ImagePath == <<"/", "medias", "/", "x.png">>
OfflinePath == <<"/", "offline.html">>
FeedPath == <<"/", "atom.xml">>

ExtraPaths == { PostPath, ImagePath, OfflinePath }

\* The universe on which the fetch listener's classification is checked.
AllRequests ==
    { Req(o, p, s, d) :
        o \in {SelfOrigin, OtherOrigin},
        p \in Range(STATIC_ASSETS) \cup GenPaths \cup ExtraPaths,
        s \in {"", "?v=1"},
        d \in Destinations }

\* The destination a page requests a manifest asset with.
NaturalDest(p) ==
    CASE p = <<"/">> -> "document"
      [] p[Len(p)] \in {"matery.css", "modern-optimizations.css"} -> "style"
      [] p[Len(p)] \in {"logo.png", "favicon.png"} -> "image"
      [] OTHER -> "script"

\* The requests of the full runs: every manifest asset, and one request per
\* case of the strategies.
ReqSet ==
    { Req(SelfOrigin, p, "", NaturalDest(p)) : p \in Range(STATIC_ASSETS) }
    \cup { Req(SelfOrigin, <<"/">>, "?v=1", "document"),
           Req(SelfOrigin, PostPath, "", "document"),
           Req(SelfOrigin, PostPath, "", ""),
           Req(SelfOrigin, OfflinePath, "", "document"),
           Req(SelfOrigin, ImagePath, "", "image"),
           Req(SelfOrigin, FeedPath, "", "script"),
           Req(OtherOrigin, ImagePath, "", "image"),
           Req(OtherOrigin, <<"/">>, "", "document") }

(***************************************************************************)
(* The scripts of the page, as their constructors leave them.              *)
(***************************************************************************)
\* this.maxRetries = 3
maxRetries == 3

cdnUrls == <<"cdn.jsdelivr.net", "unpkg.com", "cdn.bootcdn.net">>

\* new TwikooErrorHandler(); startDiagnostic may have chosen any CDN.
\* loading, retryTimers and fallbackTimers count the loadScript/initialize
\* awaits in flight and the setTimeout callbacks not yet run; attempted tells
\* whether a load attempt has started since showFallbackUI last ran.
TwikooNew(cdn) ==
    [ retryCount |-> 0,
      currentCdnIndex |-> cdn,
      loading |-> 0,
      retryTimers |-> 0,
      fallbackTimers |-> 0,
      fallbackShown |-> FALSE,
      attempted |-> FALSE,
      loaded |-> FALSE,
      retryLoads |-> 0 ]

\* new WorkerManager() after init(): n of the workers were created.  A
\* workerInfo object is a number; pool holds the objects of workerPool, 0 for
\* a hole of the array; busy and dead are the objects with busy = true and
\* those whose worker is terminated; activeJobs and posted are sets of
\* (task, worker) pairs: the entries of the activeJobs map (each with its
\* timeout), and the tasks a live worker has received and not answered;
\* status is the state of the promise executeTask returned for each task;
\* restarting holds the pool indexes whose restartWorker awaits the new
\* worker; threw tells whether the last processQueue threw; assignedBusy
\* records that assignTaskToWorker was handed a worker marked busy.
ManagerNew(n) ==
    [ initialized |-> TRUE,
      pool |-> [k \in 1..n |-> k],
      busy |-> {},
      dead |-> {},
      objects |-> n,
      taskQueue |-> <<>>,
      activeJobs |-> {},
      posted |-> {},
      status |-> [t \in 1..MaxTasks |-> "none"],
      submitted |-> 0,
      restarting |-> {},
      restarts |-> 0,
      cleanups |-> 0,
      threw |-> FALSE,
      assignedBusy |-> FALSE ]

PageNew == twikoo = TwikooNew(0) /\ manager = ManagerNew(1)

PageUnchanged == UNCHANGED <<twikoo, manager>>

(***************************************************************************)
(* Initial state: the install event has been dispatched and the listener   *)
(* has called caches.open(STATIC_CACHE).  Caches of a previous version,    *)
(* and caches with the current names, may exist.                           *)
(***************************************************************************)
PreviousEntry(u) == Resp(200, "as-served", u, "previous", 0)

InitContent(n) ==
    CASE n = OLD_STATIC ->
            [u \in {ManifestUrl(<<"/">>), OfflineUrl} |-> PreviousEntry(u)]
      [] n = OLD_DYNAMIC ->
            [u \in {ManifestUrl(PostPath)} |-> PreviousEntry(u)]
      [] n = STATIC_CACHE ->
            [u \in {ManifestUrl(<<"/">>)} |-> PreviousEntry(u)]
      [] n = DYNAMIC_CACHE ->
            [u \in {ManifestUrl(PostPath), ManifestUrl(ImagePath)} |-> PreviousEntry(u)]

Init ==
    /\ swState = "installing"
    /\ skipWaitingFlag = FALSE
    /\ oldActive \in BOOLEAN
    /\ installPc = "open"
    /\ addAllResult = "none"
    /\ activatePc = "idle"
    /\ toDelete = {}
    /\ claimed = FALSE
    /\ actNames = {}
    /\ actStore = [n \in Range(AllCacheNames) |-> EmptyCache]
    /\ \E S \in SUBSET Range(AllCacheNames) :
          /\ cacheNames = SelectSeq(AllCacheNames, LAMBDA n : n \in S)
          /\ store = [n \in Range(AllCacheNames) |->
                        IF n \in S THEN InitContent(n) ELSE EmptyCache]
    /\ h = <<>>
    /\ pendingPuts = {}
    /\ PageNew

(***************************************************************************)
(* install listener                                                        *)
(***************************************************************************)
\* Faulty variant: the .catch stands before the .then that calls skipWaiting.
InstallOnErrorThen == "then"

\* .catch(error => { console.error(...) }): the chain is fulfilled
InstallOnError == "resolved"

\* caches.open(STATIC_CACHE) settles
InstallOpen ==
    /\ swState = "installing"
    /\ installPc = "open"
    /\ \E ok \in BOOLEAN :
          IF ok
          THEN /\ cacheNames' = Opened(cacheNames, STATIC_CACHE)
               /\ installPc' = "addAll"
          ELSE /\ cacheNames' = cacheNames
               /\ installPc' = InstallOnError
    /\ UNCHANGED <<swState, skipWaitingFlag, oldActive, addAllResult, activatePc,
                   toDelete, claimed, actNames, actStore, store, h, pendingPuts>>
    /\ PageUnchanged

\* cache.addAll(STATIC_ASSETS) settles
InstallAddAll ==
    /\ swState = "installing"
    /\ installPc = "addAll"
    /\ \E ok \in BOOLEAN :
          IF ok
          THEN /\ store' = [store EXCEPT ![STATIC_CACHE] = AddedAll(@)]
               /\ addAllResult' = "ok"
               /\ installPc' = "then"
          ELSE /\ store' = store
               /\ addAllResult' = "failed"
               /\ installPc' = InstallOnError
    /\ UNCHANGED <<swState, skipWaitingFlag, oldActive, activatePc, toDelete,
                   claimed, actNames, actStore, cacheNames, h, pendingPuts>>
    /\ PageUnchanged

\* .then(() => self.skipWaiting())
InstallSkipWaiting ==
    /\ swState = "installing"
    /\ installPc = "then"
    /\ skipWaitingFlag' = TRUE
    /\ installPc' = "resolved"
    /\ UNCHANGED <<swState, oldActive, addAllResult, activatePc, toDelete, claimed,
                   actNames, actStore, cacheNames, store, h, pendingPuts>>
    /\ PageUnchanged

\* event.waitUntil(promise): the platform ends the install step with the
\* promise's outcome.
InstallSettled ==
    /\ swState = "installing"
    /\ installPc \in {"resolved", "rejected"}
    /\ swState' = IF installPc = "resolved" THEN "installed" ELSE "redundant"
    /\ UNCHANGED <<skipWaitingFlag, oldActive, installPc, addAllResult, activatePc,
                   toDelete, claimed, actNames, actStore, cacheNames, store, h,
                   pendingPuts>>
    /\ PageUnchanged

\* The pages the previous version controls are closed.
OldClientsClose ==
    /\ swState = "installed"
    /\ oldActive
    /\ oldActive' = FALSE
    /\ UNCHANGED <<swState, skipWaitingFlag, installPc, addAllResult, activatePc,
                   toDelete, claimed, actNames, actStore, cacheNames, store, h,
                   pendingPuts>>
    /\ PageUnchanged

(***************************************************************************)
(* activate listener                                                       *)
(***************************************************************************)
\* The platform dispatches activate once nothing holds the worker in waiting;
\* the listener calls caches.keys().
ActivateStart ==
    /\ swState = "installed"
    /\ skipWaitingFlag \/ ~oldActive
    /\ swState' = "activating"
    /\ oldActive' = FALSE
    /\ activatePc' = "keys"
    /\ actNames' = Range(cacheNames)
    /\ actStore' = store
    /\ UNCHANGED <<skipWaitingFlag, installPc, addAllResult, toDelete, claimed,
                   cacheNames, store, h, pendingPuts>>
    /\ PageUnchanged

\* Faulty variant: || in place of &&.
ShouldDeleteEither(cacheName) == cacheName # STATIC_CACHE \/ cacheName # DYNAMIC_CACHE

\* cacheName !== STATIC_CACHE && cacheName !== DYNAMIC_CACHE
ShouldDelete(cacheName) == cacheName # STATIC_CACHE /\ cacheName # DYNAMIC_CACHE

\* caches.keys() resolves; cacheNames.map(...) starts every deletion at once.
ActivateKeys ==
    /\ swState = "activating"
    /\ activatePc = "keys"
    /\ LET dels == { n \in Range(cacheNames) : ShouldDelete(n) }
       IN  /\ toDelete' = dels
           /\ activatePc' = IF dels = {} THEN "then" ELSE "deleting"
    /\ UNCHANGED <<swState, skipWaitingFlag, oldActive, installPc, addAllResult,
                   claimed, actNames, actStore, cacheNames, store, h, pendingPuts>>
    /\ PageUnchanged

\* Faulty variant: a deletion that fails counts as done (Promise.allSettled).
ActivateDeleteSettled(n) ==
    /\ n \in toDelete
    /\ toDelete' = toDelete \ {n}
    /\ \E ok \in BOOLEAN :
          /\ cacheNames' = IF ok THEN Removed(cacheNames, n) ELSE cacheNames
          /\ store' = IF ok THEN [store EXCEPT ![n] = EmptyCache] ELSE store
    /\ activatePc' = IF activatePc = "deleting" /\ toDelete' = {}
                     THEN "then" ELSE activatePc
    /\ UNCHANGED <<swState, skipWaitingFlag, oldActive, installPc, addAllResult,
                   claimed, actNames, actStore, h, pendingPuts>>
    /\ PageUnchanged

\* One caches.delete(cacheName) settles.  Promise.all rejects with the first
\* deletion that fails; the other deletions go on.
ActivateDelete(n) ==
    /\ n \in toDelete
    /\ toDelete' = toDelete \ {n}
    /\ \E ok \in BOOLEAN :
          IF ok
          THEN /\ cacheNames' = Removed(cacheNames, n)
               /\ store' = [store EXCEPT ![n] = EmptyCache]
               /\ activatePc' = IF activatePc = "deleting" /\ toDelete' = {}
                                THEN "then" ELSE activatePc
          ELSE /\ cacheNames' = cacheNames
               /\ store' = store
               /\ activatePc' = IF activatePc = "deleting" THEN "rejected"
                                ELSE activatePc
    /\ UNCHANGED <<swState, skipWaitingFlag, oldActive, installPc, addAllResult,
                   claimed, actNames, actStore, h, pendingPuts>>
    /\ PageUnchanged

\* .then(() => self.clients.claim())
ActivateClaim ==
    /\ swState = "activating"
    /\ activatePc = "then"
    /\ claimed' = TRUE
    /\ activatePc' = "resolved"
    /\ UNCHANGED <<swState, skipWaitingFlag, oldActive, installPc, addAllResult,
                   toDelete, actNames, actStore, cacheNames, store, h, pendingPuts>>
    /\ PageUnchanged

\* The platform activates the worker when the waitUntil promise settles,
\* fulfilled or rejected.
Activated ==
    /\ swState = "activating"
    /\ activatePc \in {"resolved", "rejected"}
    /\ swState' = "activated"
    /\ actNames' = {}
    /\ actStore' = [n \in Range(AllCacheNames) |-> EmptyCache]
    /\ UNCHANGED <<skipWaitingFlag, oldActive, installPc, addAllResult, activatePc,
                   toDelete, claimed, cacheNames, store, h, pendingPuts>>
    /\ PageUnchanged

(***************************************************************************)
(* fetch listener and the two strategies.  Each action is one stretch of   *)
(* a handler between two awaits.                                           *)
(***************************************************************************)
Settled(pc) == pc \in {"resolved", "rejected"}

LifecycleUnchanged ==
    UNCHANGED <<swState, skipWaitingFlag, oldActive, installPc, addAllResult,
                activatePc, claimed, actNames, actStore, twikoo, manager>>

InFlight == { i \in 1..Len(h) : h[i].pc # "passthrough" /\ ~Settled(h[i].pc) }

\* A fetch event reaches the listener of the active worker.
FetchEvent(req) ==
    /\ swState = "activated"
    /\ Len(h) < MaxEvents
    /\ Cardinality(InFlight) < MaxInFlight
    /\ h' = Append(h, NewHandler(req))
    /\ LifecycleUnchanged
    /\ UNCHANGED <<toDelete, cacheNames, store, pendingPuts>>

\* Faulty variant: the catch block rethrows for every destination.
CacheFirstCatchRethrow(hd) == [hd EXCEPT !.pc = "rejected"]

\* Faulty variant: the catch block answers every destination with the
\* placeholder.
CacheFirstCatchPlaceholder(hd) ==
    [hd EXCEPT !.pc = "resolved", !.result = PlaceholderImage]

\* The page issues the request of the first fetch event again.
FetchAgain ==
    /\ swState = "activated"
    /\ Len(h) >= 1
    /\ Len(h) < 1 + MaxRepeats
    /\ Cardinality(InFlight) < MaxInFlight
    /\ h' = Append(h, NewHandler(h[1].req))
    /\ LifecycleUnchanged
    /\ UNCHANGED <<toDelete, cacheNames, store, pendingPuts>>

\* The page issues the request of the first fetch event again while earlier
\* handlers for it may still be running.
FetchTogether ==
    /\ swState = "activated"
    /\ Len(h) >= 1
    /\ Len(h) < 1 + MaxRepeats
    /\ h' = Append(h, NewHandler(h[1].req))
    /\ LifecycleUnchanged
    /\ UNCHANGED <<toDelete, cacheNames, store, pendingPuts>>

\* cacheFirst, catch block: the placeholder for an image, else throw error
CacheFirstCatch(hd) ==
    IF hd.req.dest = "image"
    THEN [hd EXCEPT !.pc = "resolved", !.result = PlaceholderImage]
    ELSE [hd EXCEPT !.pc = "rejected"]

\* Faulty variant: the cached response is not returned, the network is asked.
CacheFirstLookupAlwaysFetch(hd, cached) ==
    [hd EXCEPT !.cachedResponse = cached, !.pc = "cf_fetch", !.fetches = @ + 1]

\* Faulty variant: a hit is returned and the network is asked as well.
CacheFirstLookupRevalidate(hd, cached) ==
    IF cached # NoResp
    THEN [hd EXCEPT !.cachedResponse = cached, !.pc = "resolved", !.result = cached,
                    !.fetches = @ + 1]
    ELSE [hd EXCEPT !.pc = "cf_fetch", !.fetches = @ + 1]

\* Faulty variant: a hit is returned and refreshed from the network.
CacheFirstLookupRefresh(hd, cached) ==
    IF cached # NoResp
    THEN [hd EXCEPT !.cachedResponse = cached, !.result = cached,
                    !.pc = "cf_fetch", !.fetches = @ + 1]
    ELSE [hd EXCEPT !.pc = "cf_fetch", !.fetches = @ + 1]

\* cacheFirst: await caches.match(request) resolves
CacheFirstLookup(hd, cached) ==
    IF cached # NoResp
    THEN [hd EXCEPT !.cachedResponse = cached, !.pc = "resolved", !.result = cached]
    ELSE [hd EXCEPT !.pc = "cf_fetch", !.fetches = @ + 1]

CacheFirstMatch(i) ==
    /\ h[i].pc = "cf_match"
    /\ h' = [h EXCEPT ![i] =
                CacheFirstLookup(@, CachesMatch(cacheNames, store, UrlOf(@.req)))]
    /\ LifecycleUnchanged
    /\ UNCHANGED <<toDelete, cacheNames, store, pendingPuts>>

\* Faulty variant: the response is written whatever its status.
CacheFirstFetchedStoreAny(hd, outcome, i) ==
    IF outcome = "throw" THEN CacheFirstCatch([hd EXCEPT !.error = "fetch failed"])
    ELSE [hd EXCEPT !.networkResponse = NetworkResponse(hd.req, outcome, i),
                    !.pc = "cf_open"]

\* Faulty variant: the response is returned without the write-through.
CacheFirstFetchedNoWrite(hd, outcome, i) ==
    IF outcome = "throw" THEN CacheFirstCatch([hd EXCEPT !.error = "fetch failed"])
    ELSE LET nr == NetworkResponse(hd.req, outcome, i)
         IN  [hd EXCEPT !.networkResponse = nr, !.pc = "resolved", !.result = nr]

\* cacheFirst: await fetch(request) settles
CacheFirstFetched(hd, outcome, i) ==
    IF outcome = "throw" THEN CacheFirstCatch([hd EXCEPT !.error = "fetch failed"])
    ELSE LET nr == NetworkResponse(hd.req, outcome, i)
         IN  IF Ok(nr)
             THEN [hd EXCEPT !.networkResponse = nr, !.pc = "cf_open"]
             ELSE [hd EXCEPT !.networkResponse = nr, !.pc = "resolved", !.result = nr]

CacheFirstFetch(i) ==
    /\ h[i].pc = "cf_fetch"
    /\ \E outcome \in NetOutcomes :
          h' = [h EXCEPT ![i] = CacheFirstFetched(@, outcome, i)]
    /\ LifecycleUnchanged
    /\ UNCHANGED <<toDelete, cacheNames, store, pendingPuts>>

\* Faulty variant: the response is stored without clone(), its body is the
\* one the page consumes.
PutOfConsumed(cacheName, hd, i) ==
    [cache |-> cacheName, url |-> UrlOf(hd.req),
     resp |-> [hd.networkResponse EXCEPT !.ctype = "consumed"], by |-> i]

\* A cache.put(request, networkResponse.clone()) that has been started.
PutOf(cacheName, hd, i) ==
    [cache |-> cacheName, url |-> UrlOf(hd.req), resp |-> hd.networkResponse, by |-> i]

\* cacheFirst: await caches.open(STATIC_CACHE) settles; cache.put is started
\* and not awaited; return networkResponse
CacheFirstOpen(i) ==
    /\ h[i].pc = "cf_open"
    /\ \E ok \in BOOLEAN :
          IF ok
          THEN /\ cacheNames' = Opened(cacheNames, STATIC_CACHE)
               /\ pendingPuts' = pendingPuts \cup {PutOf(STATIC_CACHE, h[i], i)}
               /\ h' = [h EXCEPT ![i].pc = "resolved",
                                 ![i].result = h[i].networkResponse,
                                 ![i].puts = @ + 1]
          ELSE /\ cacheNames' = cacheNames
               /\ pendingPuts' = pendingPuts
               /\ h' = [h EXCEPT ![i] = CacheFirstCatch([@ EXCEPT !.error = "open failed"])]
    /\ LifecycleUnchanged
    /\ UNCHANGED <<toDelete, store>>

\* Faulty variant: a response that is not 2xx is handled like a failed fetch.
NetworkFirstFetchedStatusFails(hd, outcome, i) ==
    IF outcome = "throw" THEN [hd EXCEPT !.pc = "nf_match", !.error = "fetch failed"]
    ELSE LET nr == NetworkResponse(hd.req, outcome, i)
         IN  IF Ok(nr)
             THEN [hd EXCEPT !.networkResponse = nr, !.pc = "nf_open"]
             ELSE [hd EXCEPT !.networkResponse = nr, !.pc = "nf_match",
                             !.error = "bad status"]

\* networkFirst: await fetch(request) settles
NetworkFirstFetched(hd, outcome, i) ==
    IF outcome = "throw" THEN [hd EXCEPT !.pc = "nf_match", !.error = "fetch failed"]
    ELSE LET nr == NetworkResponse(hd.req, outcome, i)
         IN  IF Ok(nr)
             THEN [hd EXCEPT !.networkResponse = nr, !.pc = "nf_open"]
             ELSE [hd EXCEPT !.networkResponse = nr, !.pc = "resolved", !.result = nr]

NetworkFirstFetch(i) ==
    /\ h[i].pc = "nf_fetch"
    /\ \E outcome \in NetOutcomes :
          h' = [h EXCEPT ![i] = NetworkFirstFetched(@, outcome, i)]
    /\ LifecycleUnchanged
    /\ UNCHANGED <<toDelete, cacheNames, store, pendingPuts>>

\* networkFirst: await caches.open(DYNAMIC_CACHE) settles; cache.put is
\* started and not awaited; return networkResponse.  A failed open is caught
\* like a failed fetch.
NetworkFirstOpen(i) ==
    /\ h[i].pc = "nf_open"
    /\ \E ok \in BOOLEAN :
          IF ok
          THEN /\ cacheNames' = Opened(cacheNames, DYNAMIC_CACHE)
               /\ pendingPuts' = pendingPuts \cup {PutOf(DYNAMIC_CACHE, h[i], i)}
               /\ h' = [h EXCEPT ![i].pc = "resolved",
                                 ![i].result = h[i].networkResponse,
                                 ![i].puts = @ + 1]
          ELSE /\ cacheNames' = cacheNames
               /\ pendingPuts' = pendingPuts
               /\ h' = [h EXCEPT ![i].pc = "nf_match", ![i].error = "open failed"]
    /\ LifecycleUnchanged
    /\ UNCHANGED <<toDelete, store>>

\* Faulty variant: a miss is rethrown for every destination.
NetworkFirstLookupNoOffline(hd, cached) ==
    IF cached # NoResp
    THEN [hd EXCEPT !.cachedResponse = cached, !.pc = "resolved", !.result = cached]
    ELSE [hd EXCEPT !.pc = "rejected"]

\* Faulty variant: a miss is answered with the offline page for every
\* destination.
NetworkFirstLookupOfflineForAll(hd, cached) ==
    IF cached # NoResp
    THEN [hd EXCEPT !.cachedResponse = cached, !.pc = "resolved", !.result = cached]
    ELSE [hd EXCEPT !.pc = "nf_offline"]

\* Faulty variant: a miss asks the network again.
NetworkFirstLookupRetry(hd, cached) ==
    IF cached # NoResp
    THEN [hd EXCEPT !.cachedResponse = cached, !.pc = "resolved", !.result = cached]
    ELSE [hd EXCEPT !.pc = "nf_fetch"]

\* networkFirst, catch block: await caches.match(request) resolves
NetworkFirstLookup(hd, cached) ==
    IF cached # NoResp
    THEN [hd EXCEPT !.cachedResponse = cached, !.pc = "resolved", !.result = cached]
    ELSE IF hd.req.dest = "document"
         THEN [hd EXCEPT !.pc = "nf_offline"]
         ELSE [hd EXCEPT !.pc = "rejected"]

NetworkFirstMatch(i) ==
    /\ h[i].pc = "nf_match"
    /\ h' = [h EXCEPT ![i] =
                NetworkFirstLookup(@, CachesMatch(cacheNames, store, UrlOf(@.req)))]
    /\ LifecycleUnchanged
    /\ UNCHANGED <<toDelete, cacheNames, store, pendingPuts>>

\* Faulty variant: the inline page is returned whatever the lookup found.
NetworkFirstOfflineLookupInline(hd, page) ==
    [hd EXCEPT !.pc = "resolved", !.result = OfflinePage]

\* networkFirst, catch block: await caches.match('/offline.html') resolves
NetworkFirstOfflineLookup(hd, page) ==
    IF page # NoResp
    THEN [hd EXCEPT !.offlinePage = page, !.pc = "resolved", !.result = page]
    ELSE [hd EXCEPT !.pc = "resolved", !.result = OfflinePage]

NetworkFirstOffline(i) ==
    /\ h[i].pc = "nf_offline"
    /\ h' = [h EXCEPT ![i] =
                NetworkFirstOfflineLookup(@, CachesMatch(cacheNames, store, OfflineUrl))]
    /\ LifecycleUnchanged
    /\ UNCHANGED <<toDelete, cacheNames, store, pendingPuts>>

\* A started cache.put settles: the entry is stored, or the write fails
\* (quota) and nothing is stored.  Nobody awaits it.
PutSettle(p) ==
    /\ p \in pendingPuts
    /\ pendingPuts' = pendingPuts \ {p}
    /\ \E ok \in BOOLEAN :
          store' = IF ok /\ p.cache \in Range(cacheNames)
                   THEN [store EXCEPT ![p.cache] = PutEntry(@, p.url, p.resp)]
                   ELSE store
    /\ LifecycleUnchanged
    /\ UNCHANGED <<toDelete, cacheNames, h>>

(***************************************************************************)
(* TwikooErrorHandler: loadTwikooWithRetry, showFallbackUI, retryLoad.     *)
(***************************************************************************)
\* showFallbackUI(): logs and arms the 3-second timer
ShowFallbackUI(t) ==
    [t EXCEPT !.fallbackTimers = @ + 1, !.fallbackShown = TRUE, !.attempted = FALSE]

\* loadTwikooWithRetry() up to its first await: the fallback when the retry
\* limit is reached, else a load attempt that awaits loadScript
LoadTwikooWithRetry(t) ==
    IF t.retryCount >= maxRetries
    THEN ShowFallbackUI(t)
    ELSE [t EXCEPT !.loading = @ + 1, !.attempted = TRUE]

\* retryLoad()
RetryLoad(t) == LoadTwikooWithRetry([t EXCEPT !.retryCount = 0])

\* the callback of showFallbackUI's setTimeout
FallbackCallback(t) == IF t.retryCount < maxRetries THEN RetryLoad(t) ELSE t

\* the catch block of loadTwikooWithRetry: count, next CDN, arm the retry timer
LoadFailed(t) ==
    [t EXCEPT !.retryCount = @ + 1,
              !.currentCdnIndex = (@ + 1) % Len(cdnUrls),
              !.retryTimers = @ + 1]

TwikooUnchanged == UNCHANGED <<swVars, manager>>

\* attemptAutoFix's timer or the lazy loader calls retryLoad()
TwikooRetryLoad ==
    /\ twikoo.retryLoads < MaxRetryLoads
    /\ twikoo' = [RetryLoad(twikoo) EXCEPT !.retryLoads = @ + 1]
    /\ TwikooUnchanged

\* await loadScript(...) / await initializeTwikoo() settle
TwikooLoadSettle ==
    /\ twikoo.loading > 0
    /\ \E ok \in BOOLEAN :
          twikoo' = IF ok
                    THEN [twikoo EXCEPT !.loading = @ - 1, !.loaded = TRUE]
                    ELSE LoadFailed([twikoo EXCEPT !.loading = @ - 1])
    /\ TwikooUnchanged

\* the retry timer of the catch block fires
TwikooRetryTimer ==
    /\ twikoo.retryTimers > 0
    /\ twikoo' = LoadTwikooWithRetry([twikoo EXCEPT !.retryTimers = @ - 1])
    /\ TwikooUnchanged

\* the 3-second timer of showFallbackUI fires
TwikooFallbackTimer ==
    /\ twikoo.fallbackTimers > 0
    /\ twikoo' = FallbackCallback([twikoo EXCEPT !.fallbackTimers = @ - 1])
    /\ TwikooUnchanged

(***************************************************************************)
(* WorkerManager: executeTask, processQueue, the worker's messages and     *)
(* errors, restartWorker, the task timeout and cleanup.                    *)
(***************************************************************************)
\* this.activeJobs.has(taskId) and this.activeJobs.get(taskId)
HasJob(m, t) == \E j \in m.activeJobs : j.task = t

JobOf(m, t) == CHOOSE j \in m.activeJobs : j.task = t

\* task.resolve / task.reject: a promise keeps its first settlement
Settle(m, t, outcome) ==
    IF m.status[t] = "pending" THEN [m EXCEPT !.status[t] = outcome] ELSE m

\* the first index of workerPool that find's callback stops at: a hole, on
\* which reading .busy throws, or an entry that is not busy; 0 when find
\* returns undefined
FirstStop(m, k) ==
    LET Stops == { i \in k..Len(m.pool) : m.pool[i] = 0 \/ m.pool[i] \notin m.busy }
    IN  IF Stops = {} THEN 0 ELSE CHOOSE i \in Stops : \A x \in Stops : i <= x

\* Faulty variant: the first entry of the pool, busy or not.
GetAvailableWorkerAny(m) == IF Len(m.pool) = 0 THEN 0 ELSE 1

\* getAvailableWorker(): workerPool.find(worker => !worker.busy), as the
\* index of the entry found
GetAvailableWorker(m) == FirstStop(m, 1)

\* assignTaskToWorker(task, workerInfo): the worker is marked busy, the job
\* is recorded with its timeout, the task is posted (a terminated worker
\* receives nothing)
AssignTaskToWorker(m, t, w) ==
    [m EXCEPT !.busy = @ \cup {w},
              !.activeJobs = @ \cup {[task |-> t, worker |-> w]},
              !.posted = IF w \in m.dead THEN @ ELSE @ \cup {[task |-> t, worker |-> w]},
              !.assignedBusy = @ \/ w \in m.busy]

\* processQueue(): while tasks wait and a worker is available, assign the
\* head of the queue; the TypeError of find on a hole leaves the loop
RECURSIVE ProcessQueue(_)
ProcessQueue(m) ==
    IF m.taskQueue = <<>> THEN m
    ELSE LET k == GetAvailableWorker(m)
         IN  IF k = 0 THEN m
             ELSE IF m.pool[k] = 0 THEN [m EXCEPT !.threw = TRUE]
             ELSE ProcessQueue(AssignTaskToWorker(
                      [m EXCEPT !.taskQueue = Tail(@)], Head(m.taskQueue), m.pool[k]))

\* addToQueue(task): a high priority task goes to the front
AddToQueue(m, t, priority) ==
    [m EXCEPT !.taskQueue = IF priority = "high" THEN <<t>> \o @ ELSE Append(@, t)]

\* cleanupJob(taskId): the timeout is cleared with the job, the worker freed
CleanupJob(m, t) ==
    IF ~HasJob(m, t) THEN m
    ELSE LET job == JobOf(m, t)
         IN  [m EXCEPT !.busy = @ \ {job.worker}, !.activeJobs = @ \ {job}]

\* handleTaskTimeout(taskId)
HandleTaskTimeout(m, t) ==
    IF ~HasJob(m, t) THEN m ELSE CleanupJob(Settle(m, t, "rejected"), t)

\* handleWorkerMessage(workerId, event) for a SUCCESS or ERROR message
HandleWorkerMessage(m, t, type) ==
    IF ~HasJob(m, t) THEN m
    ELSE ProcessQueue(Settle(CleanupJob(m, t), t,
                             IF type = "SUCCESS" THEN "resolved" ELSE "rejected"))

\* this.workerPool[index] = {...}: an index past the end leaves holes
PoolPut(pool, k, w) ==
    [i \in 1..(IF k > Len(pool) THEN k ELSE Len(pool)) |->
        IF i = k THEN w ELSE IF i <= Len(pool) THEN pool[i] ELSE 0]

\* cleanup(): workers terminated, active jobs rejected, the data emptied
CleanupAll(m) ==
    LET workers == { m.pool[i] : i \in 1..Len(m.pool) } \ {0}
    IN  [m EXCEPT !.dead = @ \cup workers,
                  !.posted = { j \in @ : j.worker \notin workers },
                  !.status = [t \in 1..MaxTasks |->
                                 IF HasJob(m, t) /\ @[t] = "pending"
                                 THEN "rejected" ELSE @[t]],
                  !.pool = <<>>,
                  !.taskQueue = <<>>,
                  !.activeJobs = {}]

ManagerUnchanged == UNCHANGED <<swVars, twikoo>>

\* executeTask(type, data, options): the executor queues the task and runs
\* processQueue; what the executor throws rejects the promise
ExecuteTask ==
    /\ manager.initialized
    /\ manager.submitted < MaxTasks
    /\ \E priority \in {"normal", "high"} :
          LET t == manager.submitted + 1
              queued == AddToQueue([manager EXCEPT !.submitted = t,
                                                   !.status[t] = "pending",
                                                   !.threw = FALSE],
                                   t, priority)
              ran == ProcessQueue(queued)
          IN  manager' = IF ran.threw THEN Settle(ran, t, "rejected") ELSE ran
    /\ ManagerUnchanged

\* worker.onmessage with the answer to a posted task
WorkerMessage ==
    /\ \E j \in manager.posted, type \in {"SUCCESS", "ERROR"} :
          manager' = HandleWorkerMessage(
                         [manager EXCEPT !.posted = @ \ {j}, !.threw = FALSE],
                         j.task, type)
    /\ ManagerUnchanged

\* worker.onerror of a running pool worker: handleWorkerError finds its
\* index, restartWorker terminates it and awaits the new worker
WorkerError ==
    /\ manager.restarts < MaxRestarts
    /\ \E k \in 1..Len(manager.pool) :
          /\ manager.pool[k] # 0
          /\ manager.pool[k] \notin manager.dead
          /\ manager' = [manager EXCEPT
                            !.dead = @ \cup {manager.pool[k]},
                            !.posted = { j \in @ : j.worker # manager.pool[k] },
                            !.restarting = @ \cup {k},
                            !.restarts = @ + 1]
    /\ ManagerUnchanged

\* restartWorker after await waitForWorkerReady: the entry is replaced, or
\* the start timed out and the catch only logs
RestartSettle ==
    /\ \E k \in manager.restarting, ok \in BOOLEAN :
          manager' = IF ok
                     THEN [manager EXCEPT !.restarting = @ \ {k},
                                          !.objects = @ + 1,
                                          !.pool = PoolPut(@, k, manager.objects + 1)]
                     ELSE [manager EXCEPT !.restarting = @ \ {k}]
    /\ ManagerUnchanged

\* the setTimeout callback of assignTaskToWorker
TaskTimeout ==
    /\ \E j \in manager.activeJobs :
          manager' = HandleTaskTimeout(manager, j.task)
    /\ ManagerUnchanged

\* beforeunload
Cleanup ==
    /\ manager.initialized
    /\ manager.cleanups < MaxCleanups
    /\ manager' = CleanupAll([manager EXCEPT !.cleanups = @ + 1])
    /\ ManagerUnchanged


(***************************************************************************)
(* Specifications                                                          *)
(***************************************************************************)
Next ==
    \/ InstallOpen
    \/ InstallAddAll
    \/ InstallSkipWaiting
    \/ InstallSettled
    \/ OldClientsClose
    \/ ActivateStart
    \/ ActivateKeys
    \/ \E n \in Range(AllCacheNames) : ActivateDelete(n)
    \/ ActivateClaim
    \/ Activated
    \/ \E req \in ReqSet : FetchEvent(req)
    \/ \E i \in 1..Len(h) : CacheFirstMatch(i)
    \/ \E i \in 1..Len(h) : CacheFirstFetch(i)
    \/ \E i \in 1..Len(h) : CacheFirstOpen(i)
    \/ \E i \in 1..Len(h) : NetworkFirstFetch(i)
    \/ \E i \in 1..Len(h) : NetworkFirstOpen(i)
    \/ \E i \in 1..Len(h) : NetworkFirstMatch(i)
    \/ \E i \in 1..Len(h) : NetworkFirstOffline(i)
    \/ \E p \in pendingPuts : PutSettle(p)

Spec == Init /\ [][Next]_vars

\* Runs in which the first request is issued again.
FirstFetch == \E req \in ReqSet : Len(h) = 0 /\ FetchEvent(req)

Lifecycle ==
    \/ InstallOpen
    \/ InstallAddAll
    \/ InstallSkipWaiting
    \/ InstallSettled
    \/ OldClientsClose
    \/ ActivateStart
    \/ ActivateKeys
    \/ \E n \in Range(AllCacheNames) : ActivateDelete(n)
    \/ ActivateClaim
    \/ Activated

HandlerStep ==
    \/ \E i \in 1..Len(h) : CacheFirstMatch(i)
    \/ \E i \in 1..Len(h) : CacheFirstFetch(i)
    \/ \E i \in 1..Len(h) : CacheFirstOpen(i)
    \/ \E i \in 1..Len(h) : NetworkFirstFetch(i)
    \/ \E i \in 1..Len(h) : NetworkFirstOpen(i)
    \/ \E i \in 1..Len(h) : NetworkFirstMatch(i)
    \/ \E i \in 1..Len(h) : NetworkFirstOffline(i)
    \/ \E p \in pendingPuts : PutSettle(p)

RepeatNext == Lifecycle \/ FirstFetch \/ FetchAgain \/ HandlerStep

SpecRepeat == Init /\ [][RepeatNext]_vars

\* Runs of one fetch event in which every operation the handler awaits
\* settles: the continuation of handler i runs once the promise it awaits
\* has settled.
HandlerOf(i) ==
    /\ i \in 1..Len(h)
    /\ \/ CacheFirstMatch(i)
       \/ CacheFirstFetch(i)
       \/ CacheFirstOpen(i)
       \/ NetworkFirstFetch(i)
       \/ NetworkFirstOpen(i)
       \/ NetworkFirstMatch(i)
       \/ NetworkFirstOffline(i)

AwaitsSettle == WF_vars(HandlerOf(1))

SettleNext == Lifecycle \/ FirstFetch \/ HandlerStep

SpecSettle == Init /\ [][SettleNext]_vars /\ AwaitsSettle

\* Runs in which the handlers of one request run concurrently.
ConcurrentNext == Lifecycle \/ FirstFetch \/ FetchTogether \/ HandlerStep

SpecConcurrent == Init /\ [][ConcurrentNext]_vars

\* The classification alone: the active worker receives one fetch event,
\* drawn from the whole request universe.
ActiveWorker ==
    /\ swState = "activated"
    /\ skipWaitingFlag = TRUE
    /\ oldActive = FALSE
    /\ installPc = "resolved"
    /\ addAllResult = "ok"
    /\ activatePc = "resolved"
    /\ toDelete = {}
    /\ claimed = TRUE
    /\ actNames = {}
    /\ actStore = [n \in Range(AllCacheNames) |-> EmptyCache]
    /\ cacheNames = <<STATIC_CACHE>>
    /\ store = [n \in Range(AllCacheNames) |->
                  IF n = STATIC_CACHE THEN AddedAll(EmptyCache) ELSE EmptyCache]
    /\ h = <<>>
    /\ pendingPuts = {}

ClassifyInit == ActiveWorker /\ PageNew

ClassifyNext == \E req \in AllRequests : Len(h) = 0 /\ FetchEvent(req)

SpecClassify == ClassifyInit /\ [][ClassifyNext]_vars

\* The comment loader alone.  Timers fire and loads settle (loadScript has
\* its own 10-second timeout); nothing obliges the page to call retryLoad.
TwikooInit ==
    /\ ActiveWorker
    /\ twikoo \in { TwikooNew(c) : c \in 0..(Len(cdnUrls) - 1) }
    /\ manager = ManagerNew(1)

TwikooNext ==
    \/ TwikooRetryLoad
    \/ TwikooLoadSettle
    \/ TwikooRetryTimer
    \/ TwikooFallbackTimer

TwikooFair ==
    /\ WF_vars(TwikooLoadSettle)
    /\ WF_vars(TwikooRetryTimer)
    /\ WF_vars(TwikooFallbackTimer)

SpecTwikoo == TwikooInit /\ [][TwikooNext]_vars /\ TwikooFair

\* The worker manager of a page, with any number of its workers created.
ManagerInit ==
    /\ ActiveWorker
    /\ twikoo = TwikooNew(0)
    /\ manager \in { ManagerNew(n) : n \in 0..MaxWorkers }

ManagerNext ==
    \/ ExecuteTask
    \/ WorkerMessage
    \/ WorkerError
    \/ RestartSettle
    \/ TaskTimeout
    \/ Cleanup

\* timers fire, awaited worker starts settle and posted messages are answered
ManagerFair ==
    /\ WF_vars(TaskTimeout)
    /\ WF_vars(RestartSettle)
    /\ WF_vars(WorkerMessage)

SpecManager == ManagerInit /\ [][ManagerNext]_vars /\ ManagerFair

(***************************************************************************)
(* Properties                                                              *)
(***************************************************************************)
Handlers == 1..Len(h)

SameOrigin(i) == h[i].req.origin = SelfOrigin

\* The responses stored for a URL, in any cache.
StoredFor(url) ==
    { store[n][url] : n \in { m \in Range(cacheNames) : url \in DOMAIN store[m] } }

\* The request asks for a manifest asset itself: same origin, the manifest
\* path, no query string.
IsManifestRequest(req) == UrlOf(req) \in ManifestUrls

\* The handler's fetch(request) was called and threw.
NetworkFailed(i) ==
    /\ h[i].fetches = 1
    /\ h[i].pc \notin {"cf_fetch", "nf_fetch"}
    /\ h[i].networkResponse = NoResp

\* No write of handler i is stored or under way.
NothingWrittenBy(i) ==
    /\ h[i].puts = 0
    /\ \A p \in pendingPuts : p.by # i
    /\ \A n \in Range(AllCacheNames) : \A u \in DOMAIN store[n] :
          ~(store[n][u].from = "network" /\ store[n][u].tag = i)

\* First half of C1: when cacheFirst's lookup finds the URL stored, the
\* handler resolves with a stored response for it and has made no network fetch.
C1_HitStep ==
    \A i \in Handlers :
        ( /\ h[i].pc = "cf_match"
          /\ h'[i].pc # "cf_match"
          /\ StoredFor(UrlOf(h[i].req)) # {} )
        => /\ h'[i].pc = "resolved"
           /\ h'[i].result \in StoredFor(UrlOf(h[i].req))
           /\ h'[i].fetches = 0

\* Second half of C1: once addAll has succeeded, a request for the URL of a
\* manifest asset is handled by cacheFirst, never reaches the network, and
\* resolves with the stored response for its URL.
C1_ManifestServed ==
    \A i \in Handlers :
        (addAllResult = "ok" /\ IsManifestRequest(h[i].req))
        => /\ h[i].policy = "cacheFirst"
           /\ h[i].pc \in {"cf_match", "resolved"}
           /\ h[i].fetches = 0
           /\ h[i].pc = "resolved" =>
                 /\ h[i].result = h[i].cachedResponse
                 /\ h[i].result.url = UrlOf(h[i].req)
                 /\ h[i].result.from \in {"install", "previous"}

ChainRule(req) ==
    IF \E k \in 1..Len(NETWORK_FIRST) : Includes(req.path, NETWORK_FIRST[k])
    THEN 1
    ELSE IF req.dest \in {"style", "script", "image"} \/ req.path \in Range(STATIC_ASSETS)
         THEN 2
         ELSE IF req.dest = "document" THEN 3 ELSE 4

\* C2: for a same-origin request the listener answers with exactly the policy
\* of the first rule of the chain that matches: network-first list, then
\* style/script/image or manifest path, then document, then the default.
C2_PriorityChain ==
    \A i \in Handlers :
        SameOrigin(i) =>
            /\ h[i].rule = ChainRule(h[i].req)
            /\ h[i].policy = (IF h[i].rule = 2 THEN "cacheFirst" ELSE "networkFirst")
            /\ h[i].pc = (IF h[i].rule = 2 THEN "cf_match" ELSE "nf_fetch")

\* A feed path requested as an image: rules 1 and 2 both match, rule 1 wins.
C2_Witness ==
    \E i \in Handlers :
        /\ SameOrigin(i)
        /\ h[i].req.path = <<"/", "sitemap.xml">>
        /\ h[i].req.dest = "image"
        /\ h[i].rule = 1
        /\ h[i].policy = "networkFirst"

\* The request path holds one of the three file names.
HoldsFeedName(path) ==
    \E t \in {"search.xml", "atom.xml", "sitemap.xml"} : Includes(path, <<t>>)

\* C3 as stated: a same-origin request whose path contains search.xml,
\* atom.xml or sitemap.xml is network-first whatever its resource type.
C3_FeedNameIsNetworkFirst ==
    \A i \in Handlers :
        (SameOrigin(i) /\ HoldsFeedName(h[i].req.path)) => h[i].policy = "networkFirst"

\* C3, amended: a same-origin request whose path contains /search.xml,
\* /atom.xml or /sitemap.xml (with the leading slash) is network-first
\* whatever its resource type.
C3_FeedPathIsNetworkFirst ==
    \A i \in Handlers :
        ( /\ SameOrigin(i)
          /\ \E k \in 1..Len(NETWORK_FIRST) : Includes(h[i].req.path, NETWORK_FIRST[k]) )
        => h[i].policy = "networkFirst"

C3_Witness ==
    \E i \in Handlers :
        /\ SameOrigin(i)
        /\ h[i].req.path = <<"/", "x", "/", "atom.xml">>
        /\ h[i].req.dest = "style"
        /\ h[i].policy = "networkFirst"

CrossOrigin(i) == h[i].req.origin # SelfOrigin

\* The step dispatches a fetch event for a cross-origin request.
C4_Dispatch ==
    (Len(h') = Len(h) + 1 /\ h'[Len(h')].req.origin # SelfOrigin)
    => /\ h'[Len(h')].pc = "passthrough"
       /\ h'[Len(h')].fetches = 0
       /\ cacheNames' = cacheNames
       /\ store' = store
       /\ pendingPuts' = pendingPuts

C4_NotHandled ==
    \A i \in Handlers :
        CrossOrigin(i) =>
            /\ h[i].pc = "passthrough"
            /\ h[i].policy = "none"
            /\ h[i].result = NoResp
            /\ h[i].fetches = 0
            /\ NothingWrittenBy(i)

\* C4: a cross-origin request is not answered by the listener; the event
\* makes no network fetch and leaves every cache as it was.
C4_CrossOriginUntouched == [][C4_Dispatch]_vars /\ []C4_NotHandled

C4_Witness ==
    \E i \in Handlers :
        /\ CrossOrigin(i)
        /\ h[i].req.dest = "image"
        /\ h[i].pc = "passthrough"
        /\ cacheNames # <<>>

\* The activate listener's promise is fulfilled and the platform has not yet
\* marked the worker active.
ActivateCompleted == swState = "activating" /\ activatePc = "resolved"

\* C5: when the activate listener completes, the caches that exist are
\* exactly the current STATIC and DYNAMIC caches that existed when it
\* started, with the entries they had; every other cache is gone.
C5_ActivationEviction ==
    ActivateCompleted =>
        /\ Range(cacheNames) = actNames \cap {STATIC_CACHE, DYNAMIC_CACHE}
        /\ \A n \in Range(cacheNames) : store[n] = actStore[n]
        /\ \A n \in Range(AllCacheNames) \ Range(cacheNames) : store[n] = EmptyCache

\* The example of the specification: the four names exist at the start.
C5_Witness ==
    /\ ActivateCompleted
    /\ actNames = {OLD_STATIC, OLD_DYNAMIC, STATIC_CACHE, DYNAMIC_CACHE}
    /\ Range(cacheNames) = {STATIC_CACHE, DYNAMIC_CACHE}

\* C6: when the bulk-add of the manifest fails, the install step fails: the
\* worker does not become installed (waiting) and never becomes active.
C6_FailedInstallDoesNotAdvance ==
    addAllResult = "failed" => swState \notin {"installed", "activating", "activated"}

\* C7: whenever the install step has completed, the STATIC cache holds an
\* entry for every path of the manifest.
C7_ManifestInStatic ==
    swState \in {"installed", "activating", "activated"}
    => /\ STATIC_CACHE \in Range(cacheNames)
       /\ ManifestUrls \subseteq DOMAIN store[STATIC_CACHE]

\* C8: a networkFirst document request whose fetch failed, with neither the
\* request nor /offline.html found in the caches, resolves with the
\* synthesized page: status 200, Content-Type text/html; charset=utf-8.
C8_OfflineDocument ==
    \A i \in Handlers :
        ( /\ h[i].policy = "networkFirst"
          /\ h[i].req.dest = "document"
          /\ NetworkFailed(i)
          /\ Settled(h[i].pc)
          /\ h[i].cachedResponse = NoResp
          /\ h[i].offlinePage = NoResp )
        => /\ h[i].pc = "resolved"
           /\ h[i].result.status = 200
           /\ h[i].result.ctype = "text/html; charset=utf-8"
           /\ h[i].result.from = "synth"

C8_Witness ==
    \E i \in Handlers :
        /\ h[i].policy = "networkFirst"
        /\ h[i].req.path = PostPath
        /\ h[i].req.dest = "document"
        /\ NetworkFailed(i)
        /\ StoredFor(UrlOf(h[i].req)) = {}
        /\ StoredFor(OfflineUrl) = {}
        /\ h[i].pc = "resolved"
        /\ h[i].result = OfflinePage

\* C9: a cacheFirst image request that missed the cache and whose fetch
\* threw resolves with the placeholder, Content-Type image/svg+xml, and
\* writes nothing to any cache.
C9_BrokenImage ==
    \A i \in Handlers :
        ( /\ h[i].policy = "cacheFirst"
          /\ h[i].req.dest = "image"
          /\ NetworkFailed(i) )
        => /\ h[i].pc = "resolved"
           /\ h[i].result.ctype = "image/svg+xml"
           /\ h[i].result.from = "synth"
           /\ NothingWrittenBy(i)

C9_Witness ==
    \E i \in Handlers :
        /\ h[i].policy = "cacheFirst"
        /\ h[i].req.path = ImagePath
        /\ h[i].req.dest = "image"
        /\ NetworkFailed(i)
        /\ h[i].pc = "resolved"
        /\ h[i].result = PlaceholderImage

\* C10: a same-origin navigation (destination document) whose fetch failed
\* and that found no cached copy is answered with the offline page, cached
\* or synthesized, never with an error: for every path, "/" included.
C10_NavigationGetsOfflinePage ==
    \A i \in Handlers :
        ( /\ SameOrigin(i)
          /\ h[i].req.dest = "document"
          /\ NetworkFailed(i)
          /\ Settled(h[i].pc)
          /\ h[i].cachedResponse = NoResp )
        => /\ h[i].pc = "resolved"
           /\ h[i].result \in {OfflinePage, h[i].offlinePage}
           /\ h[i].result # NoResp

\* The write-through of handler i is the entry stored for its URL in cache n.
WriteStored(i, n) ==
    /\ n \in Range(cacheNames)
    /\ UrlOf(h[i].req) \in DOMAIN store[n]
    /\ store[n][UrlOf(h[i].req)] = h[i].networkResponse
    /\ h[i].networkResponse.from = "network"
    /\ h[i].networkResponse.tag = i

\* The handler returned the live 2xx response of its own fetch.
ReturnedLive(i) ==
    /\ h[i].pc = "resolved"
    /\ Ok(h[i].networkResponse)
    /\ h[i].result = h[i].networkResponse

\* C11, the first call: a cacheFirst call that missed makes exactly one
\* network fetch and at most one cache write; it starts the write exactly
\* when it returns the live 2xx response.
C11_FirstCall ==
    \A i \in Handlers :
        h[i].policy = "cacheFirst"
        => /\ h[i].fetches <= 1
           /\ h[i].puts <= 1
           /\ (Settled(h[i].pc) /\ h[i].cachedResponse = NoResp) => h[i].fetches = 1
           /\ h[i].puts = 1 <=> ReturnedLive(i)

\* C11, the second call: when the write of an earlier call is stored at the
\* time a later identical request looks up, that request resolves with a
\* stored response and makes no network fetch.
C11_SecondStep ==
    \A i \in Handlers : \A j \in Handlers :
        ( /\ i < j
          /\ h[j].req = h[i].req
          /\ h[j].pc = "cf_match"
          /\ h'[j].pc # "cf_match"
          /\ WriteStored(i, STATIC_CACHE) )
        => /\ h'[j].pc = "resolved"
           /\ h'[j].fetches = 0
           /\ h'[j].result \in StoredFor(UrlOf(h[j].req))

\* C11, amended: of two identical cacheFirst requests where the first call
\* missed, the first makes exactly one network fetch and starts one cache
\* write exactly when it returns a 2xx response; the second makes zero
\* fetches once that write has been stored.
C11_Idempotence == [][C11_SecondStep]_vars /\ []C11_FirstCall

\* C11 as stated: the first call missed and returned the live 2xx response,
\* the same request is issued again after it: the first call made one fetch
\* and one write and the second makes no fetch.
C11_SecondNeverFetches ==
    \A j \in Handlers :
        ( /\ j > 1
          /\ h[j].req = h[1].req
          /\ h[1].policy = "cacheFirst"
          /\ ReturnedLive(1) )
        => /\ h[1].fetches = 1
           /\ h[1].puts = 1
           /\ h[j].fetches = 0

C11_Witness ==
    /\ Len(h) = 2
    /\ h[1].policy = "cacheFirst"
    /\ h[1].fetches = 1
    /\ h[1].puts = 1
    /\ WriteStored(1, STATIC_CACHE)
    /\ h[2].req = h[1].req
    /\ h[2].pc = "resolved"
    /\ h[2].fetches = 0
    /\ h[2].result = h[1].networkResponse

\* No cache other than n holds an entry for the URL.
OnlyIn(n, url) ==
    \A m \in Range(cacheNames) \ {n} : url \notin DOMAIN store[m]

\* C12, the stored copy: an entry a handler wrote to the DYNAMIC cache is the
\* 2xx response that handler returned to its caller, content included.
C12_StoredIsReturned ==
    \A u \in DOMAIN store[DYNAMIC_CACHE] :
        LET e == store[DYNAMIC_CACHE][u]
        IN  e.from = "network"
            => /\ e.tag \in Handlers
               /\ h[e.tag].policy = "networkFirst"
               /\ UrlOf(h[e.tag].req) = u
               /\ ReturnedLive(e.tag)
               /\ e = h[e.tag].result

\* C12, the fallback: when the write of an earlier call is stored at the time
\* a later identical request falls back to the cache, that request resolves
\* with a stored response for its URL, and with the stored copy of the
\* earlier response when no other cache holds the URL.
C12_FallbackStep ==
    \A i \in Handlers : \A j \in Handlers :
        ( /\ i < j
          /\ h[j].req = h[i].req
          /\ h[j].pc = "nf_match"
          /\ h'[j].pc # "nf_match"
          /\ WriteStored(i, DYNAMIC_CACHE) )
        => /\ h'[j].pc = "resolved"
           /\ h'[j].result \in StoredFor(UrlOf(h[j].req))
           /\ OnlyIn(DYNAMIC_CACHE, UrlOf(h[j].req))
                 => /\ h'[j].result = store[DYNAMIC_CACHE][UrlOf(h[j].req)]
                    /\ h'[j].result = h[i].result

C13_WriteFailureInvisible ==
    \A i \in Handlers :
        (Ok(h[i].networkResponse) /\ h[i].pc \notin {"cf_open", "nf_open"})
        => /\ h[i].pc = "resolved"
           /\ h[i].result = h[i].networkResponse
           /\ h[i].error = "none"

\* The cache a policy is assigned.
AssignedCache(policy) ==
    IF policy = "cacheFirst" THEN STATIC_CACHE ELSE DYNAMIC_CACHE

\* C14: a handler's cache lookup that returns a cached response returns the
\* entry of its policy's partition: STATIC for cacheFirst, DYNAMIC for the
\* fallback of networkFirst.
C14_AssignedPartitionStep ==
    \A i \in Handlers :
        ( /\ h[i].pc \in {"cf_match", "nf_match"}
          /\ h'[i].pc = "resolved" )
        => LET n == AssignedCache(h[i].policy)
               u == UrlOf(h[i].req)
           IN  /\ n \in Range(cacheNames)
               /\ u \in DOMAIN store[n]
               /\ h'[i].result = store[n][u]

C14_AssignedPartition == [][C14_AssignedPartitionStep]_vars

\* C15: in the networkFirst fallback for a document that is not cached, a
\* cached entry for /offline.html is returned when there is one, and the
\* inline page only when there is none.
C15_OfflineStep ==
    \A i \in Handlers :
        ( /\ h[i].pc = "nf_offline"
          /\ h'[i].pc # "nf_offline" )
        => /\ h[i].req.dest = "document"
           /\ h[i].cachedResponse = NoResp
           /\ h'[i].pc = "resolved"
           /\ IF StoredFor(OfflineUrl) # {}
              THEN /\ h'[i].result \in StoredFor(OfflineUrl)
                   /\ h'[i].result # OfflinePage
              ELSE h'[i].result = OfflinePage

C15_CachedOfflinePreferred == [][C15_OfflineStep]_vars

C15_Witness ==
    \E i \in Handlers :
        /\ h[i].policy = "networkFirst"
        /\ h[i].req.dest = "document"
        /\ NetworkFailed(i)
        /\ h[i].cachedResponse = NoResp
        /\ h[i].pc = "resolved"
        /\ h[i].result.url = OfflineUrl
        /\ h[i].result = h[i].offlinePage

\* C16, the outcome: a cacheFirst request for anything but an image that
\* missed the cache and whose fetch threw is rejected with the error of the
\* fetch, without a synthesized response, and has written nothing.
C16_Rejected ==
    \A i \in Handlers :
        ( /\ h[i].policy = "cacheFirst"
          /\ h[i].req.dest # "image"
          /\ NetworkFailed(i) )
        => /\ h[i].pc = "rejected"
           /\ h[i].error = "fetch failed"
           /\ h[i].result = NoResp
           /\ h[i].cachedResponse = NoResp
           /\ NothingWrittenBy(i)

\* C16, the step: the rejection leaves every cache as it was.
C16_RejectStep ==
    \A i \in Handlers :
        (h[i].pc = "cf_fetch" /\ h'[i].pc = "rejected")
        => UNCHANGED <<cacheNames, store, pendingPuts>>

\* C16: a cacheFirst request whose type is not image, that missed the cache
\* and whose fetch throws, rejects with that error and modifies no partition.
C16_NonImageRethrown == [][C16_RejectStep]_vars /\ []C16_Rejected

C16_Witness ==
    \E i \in Handlers :
        /\ h[i].policy = "cacheFirst"
        /\ h[i].req.dest = "script"
        /\ NetworkFailed(i)
        /\ h[i].pc = "rejected"
        /\ h[i].error = "fetch failed"

\* C17, the fallback: for a networkFirst request that is not a document, the
\* lookup of the catch block rejects with the error it caught when nothing
\* is stored for the URL, and resolves with a stored response otherwise.
C17_FallbackStep ==
    \A i \in Handlers :
        ( /\ h[i].pc = "nf_match"
          /\ h'[i].pc # "nf_match"
          /\ h[i].req.dest # "document" )
        => IF StoredFor(UrlOf(h[i].req)) = {}
           THEN /\ h'[i].pc = "rejected"
                /\ h'[i].error = h[i].error
                /\ h'[i].result = NoResp
           ELSE /\ h'[i].pc = "resolved"
                /\ h'[i].result \in StoredFor(UrlOf(h[i].req))

\* C17, the error: the error of a failed fetch is the network error, and a
\* networkFirst request is rejected only when it is not a document and no
\* cached response was found.
C17_Error ==
    \A i \in Handlers :
        (h[i].policy = "networkFirst" /\ NetworkFailed(i))
        => /\ h[i].error = "fetch failed"
           /\ h[i].pc = "rejected"
                 => (h[i].req.dest # "document" /\ h[i].cachedResponse = NoResp)
           /\ (h[i].pc = "resolved" /\ h[i].req.dest # "document")
                 => (h[i].result = h[i].cachedResponse /\ h[i].result # NoResp)

\* C17: a networkFirst request that is not a document and whose fetch fails
\* rejects with the network error when no cached entry matches, and resolves
\* with the cached entry when one matches.
C17_NonDocumentFallback == [][C17_FallbackStep]_vars /\ []C17_Error

C17_Witness ==
    \E i \in Handlers :
        /\ h[i].policy = "networkFirst"
        /\ h[i].req.dest # "document"
        /\ NetworkFailed(i)
        /\ h[i].pc = "rejected"
        /\ h[i].error = "fetch failed"
        /\ StoredFor(UrlOf(h[i].req)) = {}

\* C18: a networkFirst handler has issued its fetch before any cache lookup;
\* when the fetch answered 2xx the caller receives the live response, not a
\* cached one, and the write that replaces the DYNAMIC entry has been made.
C18_NetworkAlwaysFirst ==
    \A i \in Handlers :
        h[i].policy = "networkFirst"
        => /\ h[i].fetches = 1
           /\ h[i].pc = "nf_fetch" => h[i].cachedResponse = NoResp
           /\ (Ok(h[i].networkResponse) /\ h[i].pc # "nf_open")
                 => /\ ReturnedLive(i)
                    /\ h[i].cachedResponse = NoResp
                    /\ h[i].offlinePage = NoResp
                    /\ h[i].puts = 1

\* C19: every entry of the STATIC and DYNAMIC caches, and every write under
\* way, is a 2xx response; a network response that is not 2xx is returned to
\* the caller and not written.
C19_OnlySuccessStored ==
    /\ \A n \in {STATIC_CACHE, DYNAMIC_CACHE} : \A u \in DOMAIN store[n] :
          Ok(store[n][u])
    /\ \A p \in pendingPuts : Ok(p.resp)
    /\ \A i \in Handlers :
          (h[i].networkResponse # NoResp /\ ~Ok(h[i].networkResponse))
          => /\ h[i].pc = "resolved"
             /\ h[i].result = h[i].networkResponse
             /\ NothingWrittenBy(i)

C19_Witness ==
    \E i \in Handlers :
        /\ h[i].pc = "resolved"
        /\ h[i].result = h[i].networkResponse
        /\ h[i].result.status = 404
        /\ h[i].puts = 0
        /\ STATIC_CACHE \in Range(cacheNames)
        /\ DOMAIN store[STATIC_CACHE] # {}

\* The positions a handler can move to from a position.
NextPositions(pc) ==
    CASE pc = "cf_match" -> {"cf_fetch", "resolved"}
      [] pc = "cf_fetch" -> {"cf_open", "resolved", "rejected"}
      [] pc = "cf_open" -> {"resolved", "rejected"}
      [] pc = "nf_fetch" -> {"nf_open", "nf_match", "resolved"}
      [] pc = "nf_open" -> {"resolved", "nf_match"}
      [] pc = "nf_match" -> {"nf_offline", "resolved", "rejected"}
      [] pc = "nf_offline" -> {"resolved"}
      [] OTHER -> {}

\* The writes of handler i that are under way.
PendingBy(i) == { p \in pendingPuts : p.by = i }

\* C20, the order of the steps: a handler, classified when it starts, moves
\* from lookup to fetch to the opening of the partition to the return, one
\* position at a time; its write is started in the step that follows the
\* opening of the partition, which is the step that returns the response.
C20_OrderStep ==
    /\ \A i \in 1..Len(h') :
          /\ h'[i].rule = FetchRule(h'[i].req)
          /\ h'[i].policy = RulePolicy(h'[i].rule)
    /\ \A i \in Handlers :
          /\ h'[i].pc # h[i].pc => h'[i].pc \in NextPositions(h[i].pc)
          /\ h'[i].fetches > h[i].fetches => h[i].pc = "cf_match"
          /\ h'[i].puts > h[i].puts
                => /\ h[i].pc \in {"cf_open", "nf_open"}
                   /\ h'[i].pc = "resolved"
                   /\ PendingBy(i)' # {}
          /\ (PendingBy(i)' \ PendingBy(i)) # {} => h'[i].puts > h[i].puts

\* C20, the return: a live 2xx response is returned only after the fetch
\* and after the write-through of that response has been started.
C20_WriteStartedBeforeReturn ==
    \A i \in Handlers :
        /\ ReturnedLive(i) => (h[i].fetches = 1 /\ h[i].puts = 1)
        /\ h[i].puts = 1 => ReturnedLive(i)
        /\ h[i].networkResponse # NoResp => h[i].fetches = 1
        /\ \A p \in PendingBy(i) :
              /\ p.resp = h[i].result
              /\ p.cache = AssignedCache(h[i].policy)

\* C20, amended: within the handling of one request the steps are strictly
\* ordered: classification, cache lookup / network fetch, opening of the
\* partition and start of the write, return; the response is returned after
\* the write-through has been started, not after it has completed.
C20_StepsOrdered == [][C20_OrderStep]_vars /\ []C20_WriteStartedBeforeReturn

\* C20 as stated: the response is returned to the caller only after the
\* write-through of that response has completed.
C20_WriteCompletedBeforeReturn ==
    \A i \in Handlers : ReturnedLive(i) => PendingBy(i) = {}

C20_Witness ==
    \E i \in Handlers :
        /\ ReturnedLive(i)
        /\ h[i].puts = 1
        /\ PendingBy(i) # {}
        /\ ~WriteStored(i, AssignedCache(h[i].policy))

\* The caches of other versions that are present.
StaleNames == { n \in Range(cacheNames) : ShouldDelete(n) }

\* C21, the call: clients.claim() is called in a state where every deletion
\* has settled and no cache of another version is left.
C21_ClaimStep ==
    (claimed' /\ ~claimed)
    => /\ swState = "activating"
       /\ toDelete = {}
       /\ StaleNames = {}

\* C21, the failure: when a deletion failed (a cache of another version
\* outlives its deletion, or the listener's promise is rejected), control of
\* the open pages has not been claimed.
C21_NoClaimAfterFailure ==
    /\ activatePc = "rejected" => ~claimed
    /\ (activatePc \notin {"idle", "keys"} /\ StaleNames \ toDelete # {})
          => (~claimed /\ activatePc = "rejected")
    /\ claimed => (activatePc = "resolved" /\ StaleNames = {})

\* C21: during activate, clients.claim is invoked only after every deletion
\* of a non-current partition has completed, and not at all when a deletion
\* fails.
C21_ClaimAfterDeletions == [][C21_ClaimStep]_vars /\ []C21_NoClaimAfterFailure

C21_Witness ==
    /\ swState = "activating"
    /\ claimed
    /\ \E n \in actNames : ShouldDelete(n) /\ n \notin Range(cacheNames)

\* C22: skipWaiting has been requested only when the bulk-add of the whole
\* manifest succeeded: never after a failed addAll, never after a failed
\* caches.open, never before addAll has settled.
C22_SkipWaitingAfterAddAll ==
    /\ skipWaitingFlag
          => /\ addAllResult = "ok"
             /\ STATIC_CACHE \in Range(cacheNames)
             /\ ManifestUrls \subseteq DOMAIN store[STATIC_CACHE]
    /\ addAllResult # "ok" => ~skipWaitingFlag
    /\ installPc \in {"open", "addAll"} => ~skipWaitingFlag

C22_Witness ==
    /\ skipWaitingFlag
    /\ addAllResult = "ok"
    /\ swState = "installing"
    /\ \A u \in ManifestUrls : store[STATIC_CACHE][u].from = "install"

\* What the settlement of fetch(request) makes of handler i.
FetchSettlements(i) ==
    { IF h[i].pc = "cf_fetch"
      THEN CacheFirstFetched(h[i], outcome, i)
      ELSE NetworkFirstFetched(h[i], outcome, i) : outcome \in NetOutcomes }

\* C23, no timeout: a handler that awaits its fetch has no response and
\* leaves that position by the settlement of the fetch only, whether or not
\* a copy of the request is cached.
C23_PendingStep ==
    \A i \in Handlers :
        h[i].pc \in {"cf_fetch", "nf_fetch"}
        => /\ h[i].result = NoResp
           /\ h'[i] = h[i] \/ h'[i] \in FetchSettlements(i)

\* The handler of fetch event i has settled (or left the request alone).
Done(i) == Len(h) >= i /\ h[i].pc \in {"resolved", "rejected", "passthrough"}

\* C23, termination: when the operations it awaits settle, a handler settles.
C23_Settles == (Len(h) >= 1) ~> Done(1)

\* C23: no timeout bounds a handler, which stays pending as long as its
\* fetch has not settled, also when a cached copy exists; whenever the fetch
\* and the cache operations settle, the handler resolves or rejects.
C23_NoTimeout == [][C23_PendingStep]_vars /\ C23_Settles

C23_Witness ==
    \E i \in Handlers :
        /\ h[i].pc = "nf_fetch"
        /\ h[i].result = NoResp
        /\ StoredFor(UrlOf(h[i].req)) # {}

CurrentCaches == {STATIC_CACHE, DYNAMIC_CACHE}

\* The handlers that wrote through to key u of cache n.
Writers(n, u) ==
    { i \in Handlers : /\ h[i].puts = 1
                       /\ UrlOf(h[i].req) = u
                       /\ AssignedCache(h[i].policy) = n }

\* C24, the writes: a step never removes a key from a current cache, and
\* during fetch handling an entry changes only by a write that completes in
\* that step and becomes the entry, whatever was stored before (last write
\* wins).
C24_WriteStep ==
    \A n \in CurrentCaches :
        /\ DOMAIN store[n] \subseteq DOMAIN store'[n]
        /\ swState = "activated"
              => \A u \in DOMAIN store'[n] :
                    (u \notin DOMAIN store[n] \/ store'[n][u] # store[n][u])
                    => \E p \in pendingPuts \ pendingPuts' :
                          /\ p.cache = n
                          /\ p.url = u
                          /\ p.resp = store'[n][u]
                          /\ p.by \in Writers(n, u)

\* C24, the entry and the answers: an entry written by a handler is the
\* response that one of the writers of the key fetched, and a handler that
\* resolves returns its own fetch result, the stored entry its lookup found,
\* or a response it synthesized.
C24_EntryOfAWriter ==
    /\ \A n \in CurrentCaches : \A u \in DOMAIN store[n] :
          store[n][u].from = "network"
          => /\ store[n][u].tag \in Writers(n, u)
             /\ store[n][u] = h[store[n][u].tag].networkResponse
    /\ \A i \in Handlers :
          /\ h[i].puts = 1 => ReturnedLive(i)
          /\ h[i].pc = "resolved"
                => \/ h[i].result = h[i].networkResponse /\ h[i].result.tag = i
                   \/ /\ h[i].result = h[i].cachedResponse
                      /\ h[i].result.url = UrlOf(h[i].req)
                      /\ h[i].result.from # "synth"
                   \/ /\ h[i].result = h[i].offlinePage
                      /\ h[i].result.url = OfflineUrl
                   \/ h[i].result \in {PlaceholderImage, OfflinePage}

\* C24: for every interleaving of concurrent handlers that write through to
\* the same key, the writes that complete leave one entry for the key, the
\* response fetched by the handler whose write completed last; no key is
\* lost and every handler returns its own fetch result or a stored entry.
C24_LastWriteWins == [][C24_WriteStep]_vars /\ []C24_EntryOfAWriter

C24_Witness ==
    /\ Len(h) = 2
    /\ h[1].req = h[2].req
    /\ ReturnedLive(1)
    /\ ReturnedLive(2)
    /\ h[1].result # h[2].result
    /\ pendingPuts = {}
    /\ WriteStored(1, AssignedCache(h[1].policy))

\* C25, the handlers: a cache that comes into existence has a current name,
\* and during fetch handling it is the cache assigned to a handler that
\* opens it in that step; a cache of another version is never written, and
\* every write under way goes to the cache assigned to its handler.
C25_CreateStep ==
    /\ \A n \in Range(cacheNames') \ Range(cacheNames) :
          /\ n \in CurrentCaches
          /\ swState = "activated"
                => \E i \in Handlers :
                      /\ h[i].pc \in {"cf_open", "nf_open"}
                      /\ h'[i].pc # h[i].pc
                      /\ n = AssignedCache(h[i].policy)
    /\ \A n \in Range(AllCacheNames) \ CurrentCaches :
          store'[n] = store[n] \/ store'[n] = EmptyCache
    /\ \A p \in pendingPuts' :
          /\ p.by \in 1..Len(h')
          /\ p.cache = AssignedCache(h'[p.by].policy)

\* C25, the names: once the activate listener's promise is fulfilled, the
\* caches that exist are among the current STATIC and DYNAMIC ones.
C25_NamesAfterActivate ==
    activatePc = "resolved" => Range(cacheNames) \subseteq CurrentCaches

\* C25: fetch handlers create and write only the current STATIC cache
\* (cacheFirst) and the current DYNAMIC cache (networkFirst); once activate
\* has completed the existing cache names stay within those two.
C25_OnlyCurrentPartitions == [][C25_CreateStep]_vars /\ []C25_NamesAfterActivate

C25_Witness ==
    \E i \in Handlers :
        /\ swState = "activated"
        /\ activatePc = "resolved"
        /\ h[i].policy = "networkFirst"
        /\ WriteStored(i, DYNAMIC_CACHE)
        /\ store[DYNAMIC_CACHE] = (UrlOf(h[i].req) :> h[i].result)
        /\ Range(cacheNames) = CurrentCaches

\* C26, the hit: a cacheFirst lookup that hits changes no cache and starts
\* no write.
C26_HitStep ==
    \A i \in Handlers :
        (h[i].pc = "cf_match" /\ h'[i].pc = "resolved")
        => /\ UNCHANGED <<cacheNames, store, pendingPuts>>
           /\ h'[i].puts = 0
           /\ h'[i].fetches = 0

\* C26, the entries: during fetch handling an entry of the STATIC cache
\* changes only by the write of a cacheFirst handler whose own lookup had
\* missed.
C26_OverwriteStep ==
    swState = "activated"
    => \A u \in DOMAIN store[STATIC_CACHE] :
          store'[STATIC_CACHE][u] # store[STATIC_CACHE][u]
          => \E p \in pendingPuts \ pendingPuts' :
                /\ p.cache = STATIC_CACHE
                /\ p.url = u
                /\ h[p.by].policy = "cacheFirst"
                /\ h[p.by].cachedResponse = NoResp
                /\ h[p.by].fetches = 1

\* C26, the handlers that hit: they have fetched and written nothing.
C26_HitWritesNothing ==
    \A i \in Handlers :
        (h[i].policy = "cacheFirst" /\ h[i].cachedResponse # NoResp)
        => /\ h[i].pc = "resolved"
           /\ h[i].fetches = 0
           /\ NothingWrittenBy(i)

\* C26, amended: a cacheFirst handler that hits the cache leaves both
\* partitions unchanged; an entry stored for a CACHE_FIRST request is never
\* refreshed by a fetch event whose lookup finds it, and is overwritten only
\* by the write-through of a handler whose lookup missed before the entry
\* was stored.
C26_HitLeavesCaches ==
    [][C26_HitStep /\ C26_OverwriteStep]_vars /\ []C26_HitWritesNothing

\* C26 as stated: once fetch events are handled, an entry of the STATIC cache
\* never changes.
C26_EntryStep ==
    swState = "activated"
    => \A u \in DOMAIN store[STATIC_CACHE] :
          store'[STATIC_CACHE][u] = store[STATIC_CACHE][u]

C26_EntryNeverOverwritten == [][C26_EntryStep]_vars

C26_Witness ==
    /\ Len(h) = 2
    /\ h[2].policy = "cacheFirst"
    /\ h[2].pc = "resolved"
    /\ h[2].cachedResponse # NoResp
    /\ h[2].puts = 0
    /\ pendingPuts = {}
    /\ UrlOf(h[2].req) \in DOMAIN store[STATIC_CACHE]
    /\ h[2].result = store[STATIC_CACHE][UrlOf(h[2].req)]
    /\ h[2].result.from = "network"

\* The fetch of handler i answered with a status that is not 2xx.
AnsweredNotOk(i) == h[i].networkResponse # NoResp /\ ~Ok(h[i].networkResponse)

\* C27, the answer: a networkFirst handler whose fetch answered with a
\* non-2xx status has resolved with that response as it is, without error,
\* cache lookup or offline page, and has written nothing.
C27_ReturnedAsIs ==
    \A i \in Handlers :
        (h[i].policy = "networkFirst" /\ AnsweredNotOk(i))
        => /\ h[i].pc = "resolved"
           /\ h[i].result = h[i].networkResponse
           /\ h[i].result.status = 404
           /\ h[i].error = "none"
           /\ h[i].cachedResponse = NoResp
           /\ h[i].offlinePage = NoResp
           /\ NothingWrittenBy(i)

\* C27, the caches: the step in which the non-2xx answer arrives leaves
\* every cache and every write under way as it was.
C27_AnswerStep ==
    \A i \in Handlers :
        ( /\ h[i].pc = "nf_fetch"
          /\ h'[i].networkResponse # NoResp
          /\ ~Ok(h'[i].networkResponse) )
        => /\ UNCHANGED <<cacheNames, store, pendingPuts>>
           /\ h'[i].pc = "resolved"

\* C27: in networkFirst a non-2xx response is a completed fetch: returned as
\* is, not stored, no cache fallback, no offline page, and the DYNAMIC entry
\* of the request stays as it was.
C27_NotOkIsNotFailure == [][C27_AnswerStep]_vars /\ []C27_ReturnedAsIs

C27_Witness ==
    \E i \in Handlers :
        /\ h[i].policy = "networkFirst"
        /\ AnsweredNotOk(i)
        /\ h[i].pc = "resolved"
        /\ DYNAMIC_CACHE \in Range(cacheNames)
        /\ UrlOf(h[i].req) \in DOMAIN store[DYNAMIC_CACHE]
        /\ store[DYNAMIC_CACHE][UrlOf(h[i].req)].from = "previous"
        /\ h[i].result # store[DYNAMIC_CACHE][UrlOf(h[i].req)]

\* C28: once showFallbackUI has run, a further load attempt is eventually
\* started.
C28_SilentRetry == twikoo.fallbackShown ~> twikoo.attempted

\* C29: every task executeTask accepted is eventually settled.
C29_EverySettled ==
    \A t \in 1..MaxTasks :
        (manager.status[t] = "pending")
            ~> (manager.status[t] \in {"resolved", "rejected"})

\* the entries of workerPool
PoolWorkers == { manager.pool[i] : i \in 1..Len(manager.pool) } \ {0}

\* the active jobs that reference the workerInfo w
JobsOn(w) == { j \in manager.activeJobs : j.worker = w }

\* C30: each pool entry is referenced by at most one active job and is busy
\* exactly when one references it; no task was assigned to a busy worker; the
\* active jobs on pool workers are no more than the pool's entries.
C30_OneJobPerWorker ==
    /\ \A w \in PoolWorkers :
          /\ Cardinality(JobsOn(w)) <= 1
          /\ w \in manager.busy <=> JobsOn(w) # {}
    /\ ~manager.assignedBusy
    /\ Cardinality({ j \in manager.activeJobs : j.worker \in PoolWorkers })
          <= Len(manager.pool)

\* a restarted pool entry runs a task while the job of the worker it
\* replaced is still active
C30_Witness ==
    /\ Len(manager.pool) = 1
    /\ Cardinality(manager.activeJobs) = 2
    /\ \E j \in manager.activeJobs : j.worker \in PoolWorkers /\ j.worker \in manager.busy
    /\ \E j \in manager.activeJobs : j.worker \notin PoolWorkers

====
